---- MODULE Spec2Model ----
(***************************************************************************)
(* Verification model of the ESLint helper scripts:                        *)
(*   src/analyze_eslint.py              text report aggregator             *)
(*   src/scripts/analyze_eslint.py      JSON report aggregator             *)
(*   src/scripts/fix_eslint_issues.py   "any" rewriter, location rewriter  *)
(*   src/scripts/fix_any_types.py       "any" rewriter (search/sub form)   *)
(*   src/scripts/fix_all_unused_vars.py declaration-pattern rewriter       *)
(* Each script is a sequential program; every specification below draws    *)
(* the script's inputs (report file, source file, linter output) in Init   *)
(* and then runs the script's functions in program order.                  *)
(***************************************************************************)
EXTENDS Integers, Sequences, FiniteSets, TLC

VARIABLES
    t_pc,                \* text aggregator: position in main()
    t_report,            \* text aggregator: the report file on disk
    folder_file_errors,  \* text aggregator: folder -> file -> count
    t_out,               \* text aggregator: what was printed
    t_exit               \* text aggregator: process exit status

VARIABLES
    j_pc,                \* JSON aggregator: position in main()
    j_report,            \* JSON aggregator: eslint_report.json on disk
    issues_by_dir,       \* JSON aggregator: directory -> file -> rule -> count
    rule_counts,         \* JSON aggregator: rule -> count
    total_issues,        \* JSON aggregator: number of messages counted
    j_out,               \* JSON aggregator: what was printed
    j_exit               \* JSON aggregator: process exit status

VARIABLES
    a_tool,              \* "any" rewriter: which script's pass is run
    a_run,               \* "any" rewriter: passes completed on the file
    a_content,           \* "any" rewriter: the source file on disk
    a_read,              \* "any" rewriter: content read by the last pass
    a_fixes,             \* "any" rewriter: fixes (fix_no_explicit_any) of the last pass
    a_modified,          \* "any" rewriter: file_modified (fix_any_types) of the last pass
    a_written            \* "any" rewriter: the last pass wrote the file

VARIABLES
    d_run,               \* declaration rewriter: runs of fix_unused_vars on the file
    d_variables,         \* declaration rewriter: flagged names of the file, one per issue
    d_content,           \* declaration rewriter: the source file on disk
    d_read,              \* declaration rewriter: content read by the last run
    d_modified,          \* declaration rewriter: file_modified of the last run
    d_written,           \* declaration rewriter: the last run wrote the file
    d_linter,            \* declaration rewriter: what invoking the linter does
    d_calls,             \* declaration rewriter: runs of main() begun
    d_raised,            \* declaration rewriter: exception that ended the script
    d_error              \* declaration rewriter: an error message was printed

VARIABLES
    l_run,               \* location rewriter: runs that read the file
    l_unused,            \* location rewriter: (name, line, column) per reported issue
    l_lines,             \* location rewriter: the lines of the source file on disk
    l_read,              \* location rewriter: the lines read by the last run
    l_fixes,             \* location rewriter: fixes returned by the last run
    l_written,           \* location rewriter: the last run wrote the file
    l_linter,            \* location rewriter: what invoking the linter does
    l_calls,             \* location rewriter: calls of fix_unused_vars begun
    l_raised,            \* location rewriter: exception that ended the script
    l_error              \* location rewriter: an error message was printed

textVars == <<t_pc, t_report, folder_file_errors, t_out, t_exit>>
jsonVars == <<j_pc, j_report, issues_by_dir, rule_counts, total_issues, j_out, j_exit>>

anyVars == <<a_tool, a_run, a_content, a_read, a_fixes, a_modified, a_written>>

declVars == <<d_run, d_variables, d_content, d_read, d_modified, d_written,
             d_linter, d_calls, d_raised, d_error>>

locVars == <<l_run, l_unused, l_lines, l_read, l_fixes, l_written,
            l_linter, l_calls, l_raised, l_error>>

vars == <<textVars, jsonVars, anyVars, declVars, locVars>>

\* the state of the scripts other than the one that runs
notText == <<jsonVars, anyVars, declVars, locVars>>
notJson == <<textVars, anyVars, declVars, locVars>>
notAny == <<textVars, jsonVars, declVars, locVars>>
notDecl == <<textVars, jsonVars, anyVars, locVars>>
notLoc == <<textVars, jsonVars, anyVars, declVars>>

(***************************************************************************)
(* Bounds of the model.                                                    *)
(***************************************************************************)
MaxLines == 3
MaxElems == 2
MaxMsgs == 3
MaxAnyLen == 4
MaxRuns == 2
MaxFrags == 3
MaxVars == 2
MaxLineLen == 3
MaxOccs == 2

(***************************************************************************)
(* Sequences and insertion-ordered dictionaries.  A Python dict is a       *)
(* sequence of [k, v] entries in insertion order; assigning to an existing *)
(* key keeps its position.                                                 *)
(***************************************************************************)
SeqOf(S, n) == UNION {[1..k -> S] : k \in 0..n}

RECURSIVE SumSeq(_)
SumSeq(s) == IF s = <<>> THEN 0 ELSE s[1] + SumSeq(Tail(s))

DictKeys(d) == {d[i].k : i \in DOMAIN d}

DictGet(d, key, dflt) ==
    IF key \in DictKeys(d)
    THEN d[CHOOSE i \in DOMAIN d : d[i].k = key].v
    ELSE dflt

DictSet(d, key, val) ==
    IF key \in DictKeys(d)
    THEN [i \in DOMAIN d |-> IF d[i].k = key THEN [k |-> key, v |-> val] ELSE d[i]]
    ELSE Append(d, [k |-> key, v |-> val])

DictValues(d) == [i \in DOMAIN d |-> d[i].v]

\* sorted(items, key=lambda x: x[1], reverse=True): a stable sort, entries
\* with equal counts keep their order in the input.
InsertDesc(s, e) ==
    LET smaller == {i \in DOMAIN s : s[i].v < e.v}
        pos == IF smaller = {} THEN Len(s) + 1
               ELSE CHOOSE i \in smaller : \A j \in smaller : i <= j
    IN SubSeq(s, 1, pos - 1) \o <<e>> \o SubSeq(s, pos, Len(s))

\* the sort without reverse=True
RECURSIVE sorted_asc(_)
sorted_asc(s) ==
    IF s = <<>> THEN <<>>
    ELSE LET r == sorted_asc(SubSeq(s, 1, Len(s) - 1))
             e == s[Len(s)]
             larger == {i \in DOMAIN r : r[i].v > e.v}
             pos == IF larger = {} THEN Len(r) + 1
                    ELSE CHOOSE i \in larger : \A j \in larger : i <= j
         IN SubSeq(r, 1, pos - 1) \o <<e>> \o SubSeq(r, pos, Len(r))

RECURSIVE sorted_desc(_)
sorted_desc(s) ==
    IF s = <<>> THEN <<>>
    ELSE InsertDesc(sorted_desc(SubSeq(s, 1, Len(s) - 1)), s[Len(s)])

\* os.path.dirname / os.path.basename on a relative path given as its segments
dirname(path) == IF path = <<>> THEN <<>> ELSE SubSeq(path, 1, Len(path) - 1)
basename(path) == IF path = <<>> THEN "" ELSE path[Len(path)]

(***************************************************************************)
(* src/analyze_eslint.py: the text aggregator.                             *)
(* A report line is given by its lexical parts: the text before the first  *)
(* ": line" (path, as segments), whether "line <n>, col <n>," follows, the *)
(* severity word and whether " -" follows it.                              *)
(***************************************************************************)
TextPaths == {<<"f.ts">>, <<"a", "f.ts">>, <<"a", "g.ts">>, <<"b", "f.ts">>}

TextLine(p, l, s, d) == [path |-> p, loc |-> l, sev |-> s, dash |-> d]

TextLines ==
    {TextLine(p, TRUE, "Error", TRUE) : p \in TextPaths}
    \cup {TextLine(<<"a", "f.ts">>, TRUE, "Warning", TRUE),
          TextLine(<<"a", "f.ts">>, TRUE, "Info", TRUE),
          TextLine(<<"b", "f.ts">>, FALSE, "Error", TRUE),
          TextLine(<<"b", "f.ts">>, TRUE, "Error", FALSE),
          TextLine(<<>>, TRUE, "Error", TRUE)}

\* file_pattern.match(line.strip())
file_pattern_match(line) ==
    /\ line.path # <<>>
    /\ line.loc
    /\ line.sev \in {"Error", "Warning"}
    /\ line.dash

\* the count assigned instead of incremented
text_count_line_assign(acc, line) ==
    LET file_path == line.path
        folder_path == dirname(file_path)
        files == DictGet(acc, folder_path, <<>>)
    IN DictSet(acc, folder_path, DictSet(files, file_path, 1))

\* folder_file_errors[folder_path][file_path] += 1
text_count_line(acc, line) ==
    LET file_path == line.path
        folder_path == dirname(file_path)
        files == DictGet(acc, folder_path, <<>>)
    IN DictSet(acc, folder_path,
               DictSet(files, file_path, DictGet(files, file_path, 0) + 1))

RECURSIVE text_parse_lines(_, _)
text_parse_lines(lines, acc) ==
    IF lines = <<>> THEN acc
    ELSE text_parse_lines(Tail(lines),
                          IF file_pattern_match(Head(lines))
                          THEN text_count_line(acc, Head(lines))
                          ELSE acc)

\* parse_eslint_report(file_path): [errorPrinted, result]
text_parse_eslint_report(report) ==
    IF ~report.exists
    THEN [error |-> TRUE, result |-> <<>>]
    ELSE [error |-> FALSE, result |-> text_parse_lines(report.lines, <<>>)]

\* display_sorted_results(folder_file_errors): the printed listing
text_folder_errors(ffe) ==
    [i \in DOMAIN ffe |-> [k |-> ffe[i].k, v |-> SumSeq(DictValues(ffe[i].v))]]

text_file_block(sorted_files) ==
    [i \in DOMAIN sorted_files |->
        [name |-> basename(sorted_files[i].k), total |-> sorted_files[i].v]]

display_sorted_results(ffe) ==
    IF ffe = <<>>
    THEN [noIssues |-> TRUE, blocks |-> <<>>]
    ELSE LET sorted_folders == sorted_desc(text_folder_errors(ffe))
         IN [noIssues |-> FALSE,
             blocks |-> [i \in DOMAIN sorted_folders |->
                 [folder |-> sorted_folders[i].k,
                  name |-> basename(sorted_folders[i].k),
                  total |-> sorted_folders[i].v,
                  files |-> text_file_block(
                      sorted_desc(DictGet(ffe, sorted_folders[i].k, <<>>)))]]]

NoOutput == [error |-> FALSE, noIssues |-> FALSE, blocks |-> <<>>]

TextReports ==
    {[exists |-> FALSE, lines |-> <<>>]}
    \cup {[exists |-> TRUE, lines |-> ls] : ls \in SeqOf(TextLines, MaxLines)}

TextIdle ==
    /\ t_pc = "off"
    /\ t_report = [exists |-> FALSE, lines |-> <<>>]
    /\ folder_file_errors = <<>>
    /\ t_out = NoOutput
    /\ t_exit = -1

TextInit ==
    /\ t_pc = "parse"
    /\ t_report \in TextReports
    /\ folder_file_errors = <<>>
    /\ t_out = NoOutput
    /\ t_exit = -1

\* main(): folder_file_errors = parse_eslint_report(REPORT_FILE)
TextParse ==
    /\ t_pc = "parse"
    /\ LET r == text_parse_eslint_report(t_report)
       IN /\ folder_file_errors' = r.result
          /\ t_out' = [t_out EXCEPT !.error = r.error]
    /\ t_pc' = "display"
    /\ UNCHANGED <<t_report, t_exit, notText>>

\* main(): display_sorted_results(folder_file_errors)
TextDisplay ==
    /\ t_pc = "display"
    /\ LET d == display_sorted_results(folder_file_errors)
       IN t_out' = [t_out EXCEPT !.noIssues = d.noIssues, !.blocks = d.blocks]
    /\ t_pc' = "complete"
    /\ UNCHANGED <<t_report, folder_file_errors, t_exit, notText>>

\* main(): print("Analysis complete.") and the interpreter exits normally
TextFinish ==
    /\ t_pc = "complete"
    /\ t_pc' = "done"
    /\ t_exit' = 0
    /\ UNCHANGED <<t_report, folder_file_errors, t_out, notText>>

(***************************************************************************)
(* src/scripts/analyze_eslint.py: the JSON aggregator.                     *)
(* eslint_report.json is missing, is not valid JSON, or holds a list of    *)
(* per-file elements; an element may lack the "messages" key and a message *)
(* may lack the "ruleId" key.                                              *)
(***************************************************************************)
TOP_FILE_RULES == 5
TOP_RULES == 10

JsonPaths == {<<"a", "f.ts">>, <<"a", "g.ts">>, <<"b", "f.ts">>}

Messages == {[hasRuleId |-> TRUE, ruleId |-> "r1"],
             [hasRuleId |-> FALSE, ruleId |-> ""]}

FileReports ==
    {[filePath |-> p, hasMessages |-> TRUE, messages |-> ms] :
        p \in JsonPaths, ms \in SeqOf(Messages, MaxMsgs)}
    \cup {[filePath |-> <<"a", "f.ts">>, hasMessages |-> FALSE, messages |-> <<>>]}

RECURSIVE CountMessages(_)
CountMessages(report) ==
    IF report = <<>> THEN 0
    ELSE Len(Head(report).messages) + CountMessages(Tail(report))

JsonReports ==
    {[state |-> "missing", elems |-> <<>>], [state |-> "invalid", elems |-> <<>>]}
    \cup {[state |-> "valid", elems |-> es] :
            es \in {r \in SeqOf(FileReports, MaxElems) : CountMessages(r) <= MaxMsgs}}

\* message.get('ruleId', 'unknown')
message_rule_id(message) == IF message.hasRuleId THEN message.ruleId ELSE "unknown"

\* the count of the messages with total_issues left as it was
RECURSIVE json_count_messages_no_total(_, _)
json_count_messages_no_total(messages, acc) ==
    IF messages = <<>> THEN acc
    ELSE LET rule_id == message_rule_id(Head(messages))
         IN json_count_messages_no_total(Tail(messages),
              [file_issues |-> DictSet(acc.file_issues, rule_id,
                                   DictGet(acc.file_issues, rule_id, 0) + 1),
               rule_counts |-> DictSet(acc.rule_counts, rule_id,
                                   DictGet(acc.rule_counts, rule_id, 0) + 1),
               total_issues |-> acc.total_issues])

\* lines 67-72: the per-message loop of one file report.
\* acc = [file_issues, rule_counts, total_issues]
RECURSIVE json_count_messages(_, _)
json_count_messages(messages, acc) ==
    IF messages = <<>> THEN acc
    ELSE LET rule_id == message_rule_id(Head(messages))
         IN json_count_messages(Tail(messages),
              [file_issues |-> DictSet(acc.file_issues, rule_id,
                                   DictGet(acc.file_issues, rule_id, 0) + 1),
               rule_counts |-> DictSet(acc.rule_counts, rule_id,
                                   DictGet(acc.rule_counts, rule_id, 0) + 1),
               total_issues |-> acc.total_issues + 1])

\* issues_by_dir[directory][filename][rule_id] = count
json_store_rule(ibd, directory, filename, rule_id, count) ==
    LET files == DictGet(ibd, directory, <<>>)
        rules == DictGet(files, filename, <<>>)
    IN DictSet(ibd, directory, DictSet(files, filename, DictSet(rules, rule_id, count)))

\* lines 75-76: store the file's rule counts in the directory structure
RECURSIVE json_store_file_issues(_, _, _, _)
json_store_file_issues(ibd, directory, filename, file_issues) ==
    IF file_issues = <<>> THEN ibd
    ELSE json_store_file_issues(
            json_store_rule(ibd, directory, filename,
                            Head(file_issues).k, Head(file_issues).v),
            directory, filename, Tail(file_issues))

\* lines 57-76: the loop over the file reports.
\* acc = [issues_by_dir, rule_counts, total_issues]
RECURSIVE json_parse_elems(_, _)
json_parse_elems(report, acc) ==
    IF report = <<>> THEN acc
    ELSE LET file_report == Head(report)
         IN IF ~file_report.hasMessages \/ file_report.messages = <<>>
            THEN json_parse_elems(Tail(report), acc)
            ELSE LET rel_path == file_report.filePath
                     directory == dirname(rel_path)
                     filename == basename(rel_path)
                     c == json_count_messages(file_report.messages,
                            [file_issues |-> <<>>,
                             rule_counts |-> acc.rule_counts,
                             total_issues |-> acc.total_issues])
                 IN json_parse_elems(Tail(report),
                      [issues_by_dir |-> json_store_file_issues(
                            acc.issues_by_dir, directory, filename, c.file_issues),
                       rule_counts |-> c.rule_counts,
                       total_issues |-> c.total_issues])

EmptyAggregation == [issues_by_dir |-> <<>>, rule_counts |-> <<>>, total_issues |-> 0]

\* a missing report taken for an empty one
json_parse_missing_as_empty(report) ==
    IF report.state = "invalid"
    THEN [exit |-> 1, error |-> report.state, agg |-> EmptyAggregation]
    ELSE [exit |-> -1, error |-> IF report.state = "missing" THEN "missing" ELSE "none",
          agg |-> json_parse_elems(report.elems, EmptyAggregation)]

\* an unparseable report taken for an empty one
json_parse_invalid_as_empty(report) ==
    IF report.state = "missing"
    THEN [exit |-> 1, error |-> report.state, agg |-> EmptyAggregation]
    ELSE [exit |-> -1, error |-> IF report.state = "invalid" THEN "invalid" ELSE "none",
          agg |-> json_parse_elems(report.elems, EmptyAggregation)]

\* parse_eslint_report(): sys.exit(1) after an error message when the file is
\* missing or is not valid JSON, the aggregation otherwise
json_parse_eslint_report(report) ==
    IF report.state # "valid"
    THEN [exit |-> 1, error |-> report.state, agg |-> EmptyAggregation]
    ELSE [exit |-> -1, error |-> "none",
          agg |-> json_parse_elems(report.elems, EmptyAggregation)]

\* sum(rules.values()) of one file, sum over the files of one directory
json_file_totals(files) ==
    [i \in DOMAIN files |-> [k |-> files[i].k, v |-> SumSeq(DictValues(files[i].v))]]

json_dir_totals(ibd) ==
    [i \in DOMAIN ibd |->
        [k |-> ibd[i].k, v |-> SumSeq(DictValues(json_file_totals(ibd[i].v)))]]

Take(s, n) == SubSeq(s, 1, IF Len(s) < n THEN Len(s) ELSE n)

\* lines 103-114: the listing of one directory's files
json_file_listing(files, dir_total) ==
    LET sorted_files == sorted_desc(json_file_totals(files))
    IN [i \in DOMAIN sorted_files |->
          LET sorted_rules == sorted_desc(DictGet(files, sorted_files[i].k, <<>>))
          IN [name |-> sorted_files[i].k,
              total |-> sorted_files[i].v,
              den |-> dir_total,
              rules |-> Take(sorted_rules, TOP_FILE_RULES),
              more |-> IF Len(sorted_rules) > TOP_FILE_RULES
                       THEN Len(sorted_rules) - TOP_FILE_RULES ELSE 0]]

\* display_analysis(issues_by_dir, rule_counts, total_issues): the printed
\* listing; den is the denominator of the percentage printed with an entry
display_analysis(ibd, rc, total) ==
    LET sorted_dirs == sorted_desc(json_dir_totals(ibd))
        sorted_rules == sorted_desc(rc)
    IN [total |-> total,
        dirs |-> [i \in DOMAIN sorted_dirs |->
            [name |-> sorted_dirs[i].k,
             total |-> sorted_dirs[i].v,
             den |-> total,
             files |-> json_file_listing(DictGet(ibd, sorted_dirs[i].k, <<>>),
                                         sorted_dirs[i].v)]],
        top_rules |-> [i \in DOMAIN Take(sorted_rules, TOP_RULES) |->
            [k |-> sorted_rules[i].k, v |-> sorted_rules[i].v, den |-> total]]]

\* a percentage with a zero denominator raises ZeroDivisionError
display_divides_by_zero(listing) ==
    \/ \E i \in DOMAIN listing.dirs :
          \/ listing.dirs[i].den = 0
          \/ \E f \in DOMAIN listing.dirs[i].files : listing.dirs[i].files[f].den = 0
    \/ \E i \in DOMAIN listing.top_rules : listing.top_rules[i].den = 0

NoListing == [total |-> -1, dirs |-> <<>>, top_rules |-> <<>>]
JsonNoOutput == [error |-> "none", displayed |-> FALSE, listing |-> NoListing,
                 complete |-> FALSE, traceback |-> "none"]

JsonIdle ==
    /\ j_pc = "off"
    /\ j_report = [state |-> "missing", elems |-> <<>>]
    /\ issues_by_dir = <<>>
    /\ rule_counts = <<>>
    /\ total_issues = 0
    /\ j_out = JsonNoOutput
    /\ j_exit = -1

JsonInit ==
    /\ j_pc = "generate"
    /\ j_report \in JsonReports
    /\ issues_by_dir = <<>>
    /\ rule_counts = <<>>
    /\ total_issues = 0
    /\ j_out = JsonNoOutput
    /\ j_exit = -1

\* generate_eslint_report(): when the report is missing the shell command
\* "npx eslint ... > eslint_report.json" runs; what it leaves on disk is up to
\* the shell and the linter
JsonGenerate ==
    /\ j_pc = "generate"
    /\ IF j_report.state = "missing"
       THEN j_report' \in JsonReports
       ELSE j_report' = j_report
    /\ j_pc' = "parse"
    /\ UNCHANGED <<issues_by_dir, rule_counts, total_issues, j_out, j_exit, notJson>>

\* main(): issues_by_dir, rule_counts, total_issues = parse_eslint_report()
JsonParse ==
    /\ j_pc = "parse"
    /\ LET r == json_parse_eslint_report(j_report)
       IN /\ issues_by_dir' = r.agg.issues_by_dir
          /\ rule_counts' = r.agg.rule_counts
          /\ total_issues' = r.agg.total_issues
          /\ j_out' = [j_out EXCEPT !.error = r.error]
          /\ j_exit' = r.exit
          /\ j_pc' = IF r.exit = 1 THEN "done" ELSE "display"
    /\ UNCHANGED <<j_report, notJson>>

\* main(): display_analysis(issues_by_dir, rule_counts, total_issues)
JsonDisplay ==
    /\ j_pc = "display"
    /\ LET listing == display_analysis(issues_by_dir, rule_counts, total_issues)
       IN IF display_divides_by_zero(listing)
          THEN /\ j_out' = [j_out EXCEPT !.traceback = "ZeroDivisionError"]
               /\ j_exit' = 1
               /\ j_pc' = "done"
          ELSE /\ j_out' = [j_out EXCEPT !.displayed = TRUE, !.listing = listing]
               /\ j_exit' = j_exit
               /\ j_pc' = "recommend"
    /\ UNCHANGED <<j_report, issues_by_dir, rule_counts, total_issues, notJson>>

\* main(), lines 131-132: the closing lines; list(issues_by_dir.keys())[0]
\* raises IndexError on an empty mapping
JsonRecommend ==
    /\ j_pc = "recommend"
    /\ IF issues_by_dir = <<>>
       THEN /\ j_out' = [j_out EXCEPT !.traceback = "IndexError"]
            /\ j_exit' = 1
       ELSE /\ j_out' = [j_out EXCEPT !.complete = TRUE]
            /\ j_exit' = 0
    /\ j_pc' = "done"
    /\ UNCHANGED <<j_report, issues_by_dir, rule_counts, total_issues, notJson>>

JsonNext == JsonGenerate \/ JsonParse \/ JsonDisplay \/ JsonRecommend


TextNext == TextParse \/ TextDisplay \/ TextFinish


(***************************************************************************)
(* Source text and regular expressions.                                    *)
(* A source file is a sequence of tokens; a token stands for the           *)
(* characters it spells.  Word tokens consist of \w characters, space      *)
(* tokens of \s characters.  A pattern is a sequence of elements, each a   *)
(* token class with a quantifier: "1", "?", "*", "+" (greedy), "*?" (lazy) *)
(* or "b" (the zero-width \b).  A regular expression is a sequence of      *)
(* alternatives [pat, repl] tried in order at each position; repl is the   *)
(* replacement template, made of literal tokens and group references       *)
(* [from, to] naming the pattern elements the group spans.                 *)
(***************************************************************************)
WordTokens == {"any", "unknown", "x", "v", "w", "_", "const", "let", "var", "in", "of",
               "context", "options", "data", "hash", "Record", "string", "number",
               "Array", "Promise", "as", "function", "import", "from",
               "private", "protected", "public", "method"}
SpaceTokens == {" "}
PunctTokens == {"(", ")", "[]", "{", "}", "<", ">", ":", ";", ",", "=", "?"}
Tokens == WordTokens \cup SpaceTokens \cup PunctTokens

Lit(t) == [set |-> {t}, q |-> "1"]
One(S) == [set |-> S, q |-> "1"]
Opt(S) == [set |-> S, q |-> "?"]
Star(S) == [set |-> S, q |-> "*"]
Plus(S) == [set |-> S, q |-> "+"]
Lazy(S) == [set |-> S, q |-> "*?"]
WordBoundary == [set |-> {}, q |-> "b"]
Text(ts) == [lit |-> ts]
Group(a, b) == [from |-> a, to |-> b]

NoMatch == [ok |-> FALSE, ends |-> <<>>]

\* F applied to the value of x, x being evaluated once
Bind(x, F(_)) == CHOOSE y \in {F(v) : v \in {x}} : TRUE

\* number of consecutive tokens of class S in s from position i
RECURSIVE RunLength(_, _, _)
RunLength(S, s, i) ==
    IF i <= Len(s) /\ s[i] \in S THEN 1 + RunLength(S, s, i + 1) ELSE 0

IsWordAt(s, i) == i >= 1 /\ i <= Len(s) /\ s[i] \in WordTokens

\* MatchFrom(pat, k, s, i): match elements k.. of pat against s from position
\* i, as a backtracking matcher does; ends[j] is the position after the text
\* matched by element k+j-1
RECURSIVE MatchFrom(_, _, _, _), TryGreedy(_, _, _, _, _, _), TryLazy(_, _, _, _, _, _)
MatchFrom(pat, k, s, i) ==
    IF k > Len(pat) THEN [ok |-> TRUE, ends |-> <<>>]
    ELSE LET e == pat[k]
             run == RunLength(e.set, s, i)
         IN CASE e.q = "1" -> TryGreedy(pat, k, s, i, IF run >= 1 THEN 1 ELSE 0, 1)
              [] e.q = "?" -> TryGreedy(pat, k, s, i, IF run >= 1 THEN 1 ELSE 0, 0)
              [] e.q = "*" -> TryGreedy(pat, k, s, i, run, 0)
              [] e.q = "+" -> TryGreedy(pat, k, s, i, run, 1)
              [] e.q = "*?" -> TryLazy(pat, k, s, i, 0, run)
              [] e.q = "b" -> IF IsWordAt(s, i - 1) # IsWordAt(s, i)
                              THEN TryGreedy(pat, k, s, i, 0, 0)
                              ELSE NoMatch

TryGreedy(pat, k, s, i, n, min) ==
    IF n < min THEN NoMatch
    ELSE Bind(MatchFrom(pat, k + 1, s, i + n),
              LAMBDA r : IF r.ok THEN [ok |-> TRUE, ends |-> <<i + n>> \o r.ends]
                         ELSE TryGreedy(pat, k, s, i, n - 1, min))

TryLazy(pat, k, s, i, n, max) ==
    IF n > max THEN NoMatch
    ELSE Bind(MatchFrom(pat, k + 1, s, i + n),
              LAMBDA r : IF r.ok THEN [ok |-> TRUE, ends |-> <<i + n>> \o r.ends]
                         ELSE TryLazy(pat, k, s, i, n + 1, max))

\* the first alternative of regex re that matches at position i: [ok, alt, ends]
\* (an alternative whose first element is mandatory cannot match where the
\* token is not of that element's class)
RECURSIVE MatchAt(_, _, _, _)
MatchAt(re, a, s, i) ==
    IF a > Len(re) THEN [ok |-> FALSE, alt |-> 0, ends |-> <<>>]
    ELSE IF re[a].pat[1].q \in {"1", "+"} /\ s[i] \notin re[a].pat[1].set
         THEN MatchAt(re, a + 1, s, i)
    ELSE Bind(MatchFrom(re[a].pat, 1, s, i),
              LAMBDA r : IF r.ok THEN [ok |-> TRUE, alt |-> a, ends |-> r.ends]
                         ELSE MatchAt(re, a + 1, s, i))

\* the replacement template expanded for a match at position i
RECURSIVE Expand(_, _, _, _)
Expand(repl, s, i, ends) ==
    IF repl = <<>> THEN <<>>
    ELSE LET item == Head(repl)
             piece == IF "lit" \in DOMAIN item THEN item.lit
                      ELSE SubSeq(s, IF item.from = 1 THEN i ELSE ends[item.from - 1],
                                  ends[item.to] - 1)
         IN piece \o Expand(Tail(repl), s, i, ends)

\* re.subn(pattern, replacement, s): leftmost non-overlapping matches,
\* scanning from position i with out and n built so far; [out, n]
RECURSIVE SubFrom(_, _, _, _, _)
SubFrom(re, s, i, out, n) ==
    IF i > Len(s) THEN [out |-> out, n |-> n]
    ELSE Bind(MatchAt(re, 1, s, i),
              LAMBDA m : IF m.ok
                         THEN SubFrom(re, s, m.ends[Len(m.ends)],
                                      out \o Expand(re[m.alt].repl, s, i, m.ends), n + 1)
                         ELSE SubFrom(re, s, i + 1, Append(out, s[i]), n))

\* no alternative of re can match in a text that lacks a token of one of its
\* mandatory elements
CanMatch(re, s) ==
    \E a \in DOMAIN re : \A k \in DOMAIN re[a].pat :
        re[a].pat[k].q \in {"1", "+"} => \E i \in DOMAIN s : s[i] \in re[a].pat[k].set

subn(re, s) ==
    IF CanMatch(re, s) THEN SubFrom(re, s, 1, <<>>, 0) ELSE [out |-> s, n |-> 0]

\* pattern.search(s)
search(re, s) == CanMatch(re, s) /\ \E i \in DOMAIN s : MatchAt(re, 1, s, i).ok

\* a regular expression without alternation
Regex(pat, repl) == <<[pat |-> pat, repl |-> repl]>>

(***************************************************************************)
(* The "any" rewriters: fix_no_explicit_any (fix_eslint_issues.py) and     *)
(* fix_any_types (fix_any_types.py).                                       *)
(***************************************************************************)
W == WordTokens
S == SpaceTokens
Unknown == <<"unknown">>
RecordOfUnknown == <<"Record", "<", "string", ",", " ", "unknown", ">">>

\* fix_eslint_issues.py lines 65-97, in order
param_any == Regex(
    <<Lit("("), Plus(W), Star(S), Lit(":"), Star(S), Lit("any"), Lit(")")>>,
    <<Text(<<"(">>), Group(2, 2), Text(<<":", " ", "unknown", ")">>)>>)
param_any_array == Regex(
    <<Lit("("), Plus(W), Star(S), Lit(":"), Star(S), Lit("any"), Lit("[]"), Lit(")")>>,
    <<Text(<<"(">>), Group(2, 2), Text(<<":", " ", "unknown", "[]", ")">>)>>)
return_any == Regex(
    <<Lit(")"), Star(S), Lit(":"), Star(S), Lit("any"), Star(S), Lit("{")>>,
    <<Text(<<")", ":", " ", "unknown", " ", "{">>)>>)
return_any_array == Regex(
    <<Lit(")"), Star(S), Lit(":"), Star(S), Lit("any"), Lit("[]"), Star(S), Lit("{")>>,
    <<Text(<<")", ":", " ", "unknown", "[]", " ", "{">>)>>)
decl_any == Regex(
    <<One({"const", "let", "var"}), Plus(S), Plus(W), Star(S), Lit(":"), Star(S),
      Lit("any"), Star(S), Lit("=")>>,
    <<Group(1, 1), Text(<<" ">>), Group(3, 3), Text(<<":", " ", "unknown", " ", "=">>)>>)
decl_any_array == Regex(
    <<One({"const", "let", "var"}), Plus(S), Plus(W), Star(S), Lit(":"), Star(S),
      Lit("any"), Lit("[]"), Star(S), Lit("=")>>,
    <<Group(1, 1), Text(<<" ">>), Group(3, 3),
      Text(<<":", " ", "unknown", "[]", " ", "=">>)>>)
prop_any == Regex(
    <<Plus(W), Opt({"?"}), Lit(":"), Star(S), Lit("any"), Lit(";")>>,
    <<Group(1, 1), Text(<<"?", ":", " ", "unknown", ";">>)>>)
prop_any_array == Regex(
    <<Plus(W), Opt({"?"}), Lit(":"), Star(S), Lit("any"), Lit("[]"), Lit(";")>>,
    <<Group(1, 1), Text(<<"?", ":", " ", "unknown", "[]", ";">>)>>)
generic_any == Regex(
    <<Lit("<"), Lit("any"), Lit(">")>>,
    <<Text(<<"<", "unknown", ">">>)>>)
generic_any_array == Regex(
    <<Lit("<"), Lit("any"), Lit("[]"), Lit(">")>>,
    <<Text(<<"<", "unknown", "[]", ">">>)>>)
record_string_any == Regex(
    <<Lit("Record"), Lit("<"), Lit("string"), Lit(","), Star(S), Lit("any"), Lit(">")>>,
    <<Text(RecordOfUnknown)>>)
record_number_any == Regex(
    <<Lit("Record"), Lit("<"), Lit("number"), Lit(","), Star(S), Lit("any"), Lit(">")>>,
    <<Text(<<"Record", "<", "number", ",", " ", "unknown", ">">>)>>)
multi_param_any == Regex(
    <<Plus(W), Opt({"?"}), Lit(":"), Star(S), Lit("any"), Star(S), Lit(",")>>,
    <<Group(1, 4), Text(Unknown), Group(6, 7)>>)
\* the heuristic leaving "any" in the type it writes
named_any_kept(name) == Regex(
    <<Lit(name), Opt({"?"}), Lit(":"), Star(S), Lit("any")>>,
    <<Text(<<name, "?", ":", " ", "Record", "<", "string", ",", " ", "any", ">">>)>>)

named_any(name) == Regex(
    <<Lit(name), Opt({"?"}), Lit(":"), Star(S), Lit("any")>>,
    <<Text(<<name, "?", ":", " ">> \o RecordOfUnknown)>>)

replacements ==
    <<param_any, param_any_array, return_any, return_any_array,
      decl_any, decl_any_array, prop_any, prop_any_array,
      generic_any, generic_any_array, record_string_any, record_number_any,
      multi_param_any,
      named_any("context"), named_any("options"), named_any("data"), named_any("hash")>>

\* lines 99-106: apply all replacements, counting the substitutions
RECURSIVE apply_replacements(_, _, _)
apply_replacements(res, fixed_content, fixes) ==
    IF res = <<>> THEN [content |-> fixed_content, fixes |-> fixes]
    ELSE Bind(subn(Head(res), fixed_content),
              LAMBDA r : apply_replacements(Tail(res), r.out, fixes + r.n))

\* the pass with the file written whatever the number of fixes
fix_no_explicit_any_always_writes(content) ==
    Bind(apply_replacements(replacements, content, 0),
         LAMBDA r : [content |-> r.content, fixes |-> r.fixes, written |-> TRUE])

\* fix_no_explicit_any(file_path): the content after the pass, the returned
\* fixes and whether the file was written
fix_no_explicit_any(content) ==
    Bind(apply_replacements(replacements, content, 0),
         LAMBDA r : [content |-> IF r.fixes > 0 THEN r.content ELSE content,
                     fixes |-> r.fixes,
                     written |-> r.fixes > 0])

\* fix_any_types.py lines 63-109, in order
any_types_patterns ==
    <<Regex(<<Lit("Record"), Lit("<"), Lit("string"), Lit(","), Star(S), Lit("any"),
              Lit(">")>>,
            <<Text(RecordOfUnknown)>>),
      Regex(<<Lit("Record"), Lit("<"), Lit("string"), Lit(","), Star(S), Lit("any"),
              Lit("[]"), Lit(">")>>,
            <<Text(<<"Record", "<", "string", ",", " ", "unknown", "[]", ">">>)>>),
      Regex(<<Lit("any"), Lit("[]")>>, <<Text(<<"unknown", "[]">>)>>),
      Regex(<<Lit("Array"), Lit("<"), Lit("any"), Lit(">")>>,
            <<Text(<<"Array", "<", "unknown", ">">>)>>),
      Regex(<<Lit("Promise"), Lit("<"), Lit("any"), Lit(">")>>,
            <<Text(<<"Promise", "<", "unknown", ">">>)>>),
      Regex(<<Lit(":"), Star(S), Lit("any"), WordBoundary>>,
            <<Text(<<":", " ", "unknown">>)>>),
      Regex(<<Lit("<"), Lit("any"), Lit(">")>>, <<Text(<<"<", "unknown", ">">>)>>),
      Regex(<<Lit("as"), Plus(S), Lit("any"), WordBoundary>>,
            <<Text(<<"as", " ", "unknown">>)>>)>>

\* one "if pattern.search(...): sub; file_modified = True" block after another
RECURSIVE apply_any_types(_, _, _)
apply_any_types(pats, modified_content, file_modified) ==
    IF pats = <<>> THEN [content |-> modified_content, modified |-> file_modified]
    ELSE IF search(Head(pats), modified_content)
         THEN apply_any_types(Tail(pats), subn(Head(pats), modified_content).out, TRUE)
         ELSE apply_any_types(Tail(pats), modified_content, file_modified)

\* fix_any_types(), for one .ts file
fix_any_types(content) ==
    Bind(apply_any_types(any_types_patterns, content, FALSE),
         LAMBDA r : [content |-> IF r.modified THEN r.content ELSE content,
                     modified |-> r.modified,
                     written |-> r.modified])

AnyAlphabet == {"any", "[]", ":", "x", "data", ",", ";", "(", ")"}
AnyContents == SeqOf(AnyAlphabet, MaxAnyLen)

AnyIdle ==
    /\ a_tool = "off"
    /\ a_run = 0
    /\ a_content = <<>>
    /\ a_read = <<>>
    /\ a_fixes = 0
    /\ a_modified = FALSE
    /\ a_written = FALSE

AnyInit ==
    /\ a_tool \in {"fix_no_explicit_any", "fix_any_types"}
    /\ a_run = 0
    /\ a_content \in AnyContents
    /\ a_read = <<>>
    /\ a_fixes = 0
    /\ a_modified = FALSE
    /\ a_written = FALSE

\* one run of fix_no_explicit_any on the file
FixNoExplicitAny ==
    /\ a_tool = "fix_no_explicit_any"
    /\ a_run < MaxRuns
    /\ \E r \in {fix_no_explicit_any(a_content)} :
          /\ a_content' = r.content
          /\ a_fixes' = r.fixes
          /\ a_written' = r.written
    /\ a_read' = a_content
    /\ a_run' = a_run + 1
    /\ UNCHANGED <<a_tool, a_modified, notAny>>

\* one run of fix_any_types on the file
FixAnyTypes ==
    /\ a_tool = "fix_any_types"
    /\ a_run < MaxRuns
    /\ \E r \in {fix_any_types(a_content)} :
          /\ a_content' = r.content
          /\ a_modified' = r.modified
          /\ a_written' = r.written
    /\ a_read' = a_content
    /\ a_run' = a_run + 1
    /\ UNCHANGED <<a_tool, a_fixes, notAny>>

AnyNext == FixNoExplicitAny \/ FixAnyTypes

(***************************************************************************)
(* fix_all_unused_vars.py: the declaration-pattern rewriter.               *)
(***************************************************************************)
NotBrace == Tokens \ {"}"}
NotParen == Tokens \ {")"}
Declarators == {"const", "let", "var"}
Visibility == {"private", "protected", "public"}

\* lines 78-96: the patterns for one variable, in order
decl_patterns(variable) ==
    <<  \* (const|let|var)\s+(v)(\s*[:=]|\s+in\s+|\s+of\s+)  ->  \1 _\2\3
        <<[pat |-> <<One(Declarators), Plus(S), Lit(variable), Star(S), One({":", "="})>>,
           repl |-> <<Group(1, 1), Text(<<" ", "_">>), Group(3, 5)>>],
          [pat |-> <<One(Declarators), Plus(S), Lit(variable), Plus(S), Lit("in"), Plus(S)>>,
           repl |-> <<Group(1, 1), Text(<<" ", "_">>), Group(3, 6)>>],
          [pat |-> <<One(Declarators), Plus(S), Lit(variable), Plus(S), Lit("of"), Plus(S)>>,
           repl |-> <<Group(1, 1), Text(<<" ", "_">>), Group(3, 6)>>]>>,
        \* (\(|,\s*)(v)(\s*[:),])  ->  \1_\2\3
        <<[pat |-> <<Lit("("), Lit(variable), Star(S), One({":", ")", ","})>>,
           repl |-> <<Group(1, 1), Text(<<"_">>), Group(2, 4)>>],
          [pat |-> <<Lit(","), Star(S), Lit(variable), Star(S), One({":", ")", ","})>>,
           repl |-> <<Group(1, 2), Text(<<"_">>), Group(3, 5)>>]>>,
        \* (\{[^}]*?)(v)(\s*[,}])  ->  \1_\2\3
        Regex(<<Lit("{"), Lazy(NotBrace), Lit(variable), Star(S), One({",", "}"})>>,
              <<Group(1, 2), Text(<<"_">>), Group(3, 5)>>),
        \* (function\s+)(v)(\s*\()  ->  \1_\2\3
        Regex(<<Lit("function"), Plus(S), Lit(variable), Star(S), Lit("(")>>,
              <<Group(1, 2), Text(<<"_">>), Group(3, 5)>>),
        \* (import\s+\{[^}]*?)(v)(\s*[,}])  ->  \1_\2\3
        Regex(<<Lit("import"), Plus(S), Lit("{"), Lazy(NotBrace), Lit(variable), Star(S),
                One({",", "}"})>>,
              <<Group(1, 4), Text(<<"_">>), Group(5, 7)>>),
        \* (import\s+)(v)(\s+from)  ->  \1_\2\3
        Regex(<<Lit("import"), Plus(S), Lit(variable), Plus(S), Lit("from")>>,
              <<Group(1, 2), Text(<<"_">>), Group(3, 5)>>),
        \* (private|protected|public)\s+(v)(\s*[:=])  ->  \1 _\2\3
        Regex(<<One(Visibility), Plus(S), Lit(variable), Star(S), One({":", "="})>>,
              <<Group(1, 1), Text(<<" ", "_">>), Group(3, 5)>>),
        \* (\(\s*)(v)(\s*\)\s*=>)  ->  \1_\2\3
        Regex(<<Lit("("), Star(S), Lit(variable), Star(S), Lit(")"), Star(S), Lit("="),
                Lit(">")>>,
              <<Group(1, 2), Text(<<"_">>), Group(3, 8)>>),
        \* (method\([^)]*?)(v)(\s*[,)])  ->  \1_\2\3
        Regex(<<Lit("method"), Lit("("), Lazy(NotParen), Lit(variable), Star(S),
                One({",", ")"})>>,
              <<Group(1, 3), Text(<<"_">>), Group(4, 6)>>)>>

\* sub in s: the tokens of sub occur consecutively in s
Contains(s, sub) ==
    \E i \in 0..(Len(s) - Len(sub)) : SubSeq(s, i + 1, i + Len(sub)) = sub

\* the skip test left out
never_prefixed(modified_content, variable) == FALSE

\* line 74: f'_{variable}' in modified_content
already_prefixed(modified_content, variable) ==
    Contains(modified_content, <<"_", variable>>)

\* lines 98-99: every pattern in turn, pattern.sub on the whole content
RECURSIVE apply_patterns(_, _)
apply_patterns(patterns, modified_content) ==
    IF patterns = <<>> THEN modified_content
    ELSE apply_patterns(Tail(patterns), subn(Head(patterns), modified_content).out)

\* lines 72-104: the loop over the variables of the file
RECURSIVE decl_fix_variables(_, _, _, _)
decl_fix_variables(variables, content, modified_content, file_modified) ==
    IF variables = <<>> THEN [content |-> modified_content, modified |-> file_modified]
    ELSE IF already_prefixed(modified_content, Head(variables))
         THEN decl_fix_variables(Tail(variables), content, modified_content, file_modified)
         ELSE Bind(apply_patterns(decl_patterns(Head(variables)), modified_content),
                   LAMBDA mc : decl_fix_variables(Tail(variables), content, mc,
                                                  file_modified \/ mc # content))

\* fix_unused_vars(issues), for one file and its flagged variables
decl_fix_unused_vars(content, variables) ==
    Bind(decl_fix_variables(variables, content, content, FALSE),
         LAMBDA r : [content |-> IF r.modified THEN r.content ELSE content,
                     modified |-> r.modified,
                     written |-> r.modified])

\* source files: up to MaxFrags pieces of text in a row
DeclFragments ==
    {<<"const", " ", "v", "=">>, <<"(", "v", ")">>, <<"{", "v", "}">>, <<"import", " ">>,
     <<",">>, <<"v">>, <<"_">>, <<"x">>}

RECURSIVE Flatten(_)
Flatten(frags) == IF frags = <<>> THEN <<>> ELSE Head(frags) \o Flatten(Tail(frags))

DeclContents == {Flatten(fs) : fs \in SeqOf(DeclFragments, MaxFrags)}
DeclVariables == {[i \in 1..n |-> "v"] : n \in 1..MaxVars}

\* subprocess.run(['npx', 'eslint', ...]): the linter prints its JSON report,
\* prints something that is not JSON, or cannot be started at all
\* (subprocess.run raises FileNotFoundError)
LinterOutcomes == {"report", "invalid_json", "not_started"}

\* lines 17-29 of get_eslint_issues: subprocess.run is outside the try, the
\* try catches json.JSONDecodeError only
get_eslint_issues(linter, variables) ==
    CASE linter = "not_started" ->
            [raised |-> "FileNotFoundError", error |-> FALSE, issues |-> <<>>]
      [] linter = "invalid_json" ->
            [raised |-> "none", error |-> TRUE, issues |-> <<>>]
      [] OTHER ->
            [raised |-> "none", error |-> FALSE, issues |-> variables]

DeclIdle ==
    /\ d_run = 0
    /\ d_variables = <<>>
    /\ d_content = <<>>
    /\ d_read = <<>>
    /\ d_modified = FALSE
    /\ d_written = FALSE
    /\ d_linter = "off"
    /\ d_calls = 0
    /\ d_raised = "none"
    /\ d_error = FALSE

DeclInit ==
    /\ d_run = 0
    /\ d_variables \in DeclVariables
    /\ d_content \in DeclContents
    /\ d_read = <<>>
    /\ d_modified = FALSE
    /\ d_written = FALSE
    /\ d_linter \in LinterOutcomes
    /\ d_calls = 0
    /\ d_raised = "none"
    /\ d_error = FALSE

\* one run of main(): get_eslint_issues, then fix_unused_vars with the issues
\* when there are any
DeclFixUnusedVars ==
    /\ d_variables # <<>>
    /\ d_calls < MaxRuns
    /\ d_raised = "none"
    /\ d_calls' = d_calls + 1
    /\ LET g == get_eslint_issues(d_linter, d_variables)
       IN /\ d_raised' = g.raised
          /\ d_error' = g.error
          /\ IF g.issues = <<>>
             THEN UNCHANGED <<d_content, d_modified, d_written, d_read, d_run>>
             ELSE /\ \E r \in {decl_fix_unused_vars(d_content, g.issues)} :
                        /\ d_content' = r.content
                        /\ d_modified' = r.modified
                        /\ d_written' = r.written
                  /\ d_read' = d_content
                  /\ d_run' = d_run + 1
    /\ UNCHANGED <<d_variables, d_linter, notDecl>>

DeclNext == DeclFixUnusedVars

(***************************************************************************)
(* fix_eslint_issues.py, fix_unused_vars: the location-pattern rewriter.   *)
(* The file is the list of lines readlines() returns, a line being its     *)
(* characters with the terminating "\n" included when there is one.        *)
(***************************************************************************)
LocChars == {"a", "_", " "}
Alnum == {"a"}

\* str.isalnum() / == '_' on one character
is_word_char(c) == c \in Alnum \/ c = "_"

\* lines 178-192 for one unused variable: the line with the underscore put
\* in, or the line as it is
loc_fix_line(line, var_name, col_num) ==
    LET prefix_pos == col_num - 1
        n == Len(var_name)
        \* line[prefix_pos - 1], Python counting index -1 from the end
        before == IF prefix_pos = 0 THEN line[Len(line)] ELSE line[prefix_pos]
        is_standalone ==
            /\ ~((prefix_pos > 0 /\ before \in Alnum) \/ before = "_")
            /\ ~(prefix_pos + n < Len(line) /\ is_word_char(line[prefix_pos + n + 1]))
    IN IF /\ prefix_pos >= 0 /\ prefix_pos < Len(line)
          /\ SubSeq(line, prefix_pos + 1,
                    IF prefix_pos + n < Len(line) THEN prefix_pos + n ELSE Len(line))
               = var_name
          /\ is_standalone
       THEN SubSeq(line, 1, prefix_pos) \o <<"_">> \o SubSeq(line, prefix_pos + 1, Len(line))
       ELSE line

\* lines 160-192: the loop over the unused variables
RECURSIVE loc_fix_all(_, _, _)
loc_fix_all(unused_vars, lines, fixes) ==
    IF unused_vars = <<>> THEN [lines |-> lines, fixes |-> fixes]
    ELSE LET u == Head(unused_vars)
         IN IF \/ u.name[1] = "_"
               \/ u.line <= 0 \/ u.line > Len(lines)
            THEN loc_fix_all(Tail(unused_vars), lines, fixes)
            ELSE Bind(loc_fix_line(lines[u.line], u.name, u.col),
                      LAMBDA new_line :
                        IF new_line = lines[u.line]
                        THEN loc_fix_all(Tail(unused_vars), lines, fixes)
                        ELSE loc_fix_all(Tail(unused_vars),
                                         [lines EXCEPT ![u.line] = new_line], fixes + 1))

\* fix_unused_vars(file_path), given the unused variables the linter reports
loc_fix_unused_vars(lines, unused_vars) ==
    IF unused_vars = <<>> THEN [lines |-> lines, fixes |-> 0, written |-> FALSE]
    ELSE Bind(loc_fix_all(unused_vars, lines, 0),
              LAMBDA r : [lines |-> IF r.fixes > 0 THEN r.lines ELSE lines,
                          fixes |-> r.fixes,
                          written |-> r.fixes > 0])

\* files of one line, with or without its "\n", and the empty file
LocLineTexts == SeqOf(LocChars, MaxLineLen)
LocFiles ==
    {<<>>} \cup {<<t \o <<"\n">>>> : t \in LocLineTexts}
           \cup {<<t>> : t \in LocLineTexts \ {<<>>}}

LocNames == {<<"a">>, <<"a", "a">>, <<"_", "a">>}
Occurrences == [name : LocNames, line : 0..2, col : 0..(MaxLineLen + 2)]

\* the linter reports its messages in order of position
InPositionOrder(us) ==
    \A i \in DOMAIN us : i < Len(us) =>
        \/ us[i].line < us[i + 1].line
        \/ us[i].line = us[i + 1].line /\ us[i].col < us[i + 1].col

LocReports == {us \in SeqOf(Occurrences, MaxOccs) : InPositionOrder(us)}

\* the reports whose occurrences are all on line 1, at a column from 1 on
OccurrencesOnLine1 == [name : LocNames, line : {1}, col : 1..(MaxLineLen + 2)]
LocReportsOnLine1 ==
    {us \in SeqOf(OccurrencesOnLine1, MaxOccs) : InPositionOrder(us)} \ {<<>>}

\* lines 121-132 of fix_unused_vars: subprocess.run with check=False inside a
\* try that catches subprocess.CalledProcessError and json.JSONDecodeError
loc_run_linter(linter, unused_vars) ==
    CASE linter = "not_started" ->
            [raised |-> "FileNotFoundError", error |-> FALSE, unused_vars |-> <<>>]
      [] linter = "invalid_json" ->
            [raised |-> "none", error |-> TRUE, unused_vars |-> <<>>]
      [] OTHER ->
            [raised |-> "none", error |-> FALSE, unused_vars |-> unused_vars]

LocIdle ==
    /\ l_run = 0
    /\ l_unused = <<>>
    /\ l_lines = <<>>
    /\ l_read = <<>>
    /\ l_fixes = 0
    /\ l_written = FALSE
    /\ l_linter = "off"
    /\ l_calls = 0
    /\ l_raised = "none"
    /\ l_error = FALSE

\* a linter that reports, with any report; a linter that fails, on any file
\* (the unused variables it would have reported do not matter then)
LocInit ==
    /\ l_run = 0
    /\ l_lines \in LocFiles
    /\ \/ l_linter = "report" /\ l_unused \in LocReports \ {<<>>}
       \/ /\ l_linter \in LinterOutcomes \ {"report"}
          /\ l_unused = <<[name |-> <<"a">>, line |-> 1, col |-> 1]>>
    /\ l_read = <<>>
    /\ l_fixes = 0
    /\ l_written = FALSE
    /\ l_calls = 0
    /\ l_raised = "none"
    /\ l_error = FALSE

\* one call of fix_unused_vars on the file
LocFixUnusedVars ==
    /\ l_unused # <<>>
    /\ l_calls < MaxRuns
    /\ l_raised = "none"
    /\ l_calls' = l_calls + 1
    /\ LET g == loc_run_linter(l_linter, l_unused)
       IN /\ l_raised' = g.raised
          /\ l_error' = g.error
          /\ IF g.raised # "none"
             THEN UNCHANGED <<l_lines, l_fixes, l_written, l_read, l_run>>
             ELSE IF g.unused_vars = <<>>
             THEN /\ l_fixes' = 0
                  /\ l_written' = FALSE
                  /\ UNCHANGED <<l_lines, l_read, l_run>>
             ELSE /\ \E r \in {loc_fix_unused_vars(l_lines, g.unused_vars)} :
                        /\ l_lines' = r.lines
                        /\ l_fixes' = r.fixes
                        /\ l_written' = r.written
                  /\ l_read' = l_lines
                  /\ l_run' = l_run + 1
    /\ UNCHANGED <<l_unused, l_linter, notLoc>>

LocNext == LocFixUnusedVars

(***************************************************************************)
(* Specifications: one script is run, the others are not.                  *)
(***************************************************************************)
TextRun == TextInit /\ JsonIdle /\ AnyIdle /\ DeclIdle /\ LocIdle
SpecText == TextRun /\ [][TextNext]_vars

JsonRun == JsonInit /\ TextIdle /\ AnyIdle /\ DeclIdle /\ LocIdle
SpecJson == JsonRun /\ [][JsonNext]_vars

\* either aggregator is run, on any report
AggInit == TextRun \/ JsonRun
AggNext == TextNext \/ JsonNext
SpecAggregators == AggInit /\ [][AggNext]_vars

AnyRun == AnyInit /\ TextIdle /\ JsonIdle /\ DeclIdle /\ LocIdle
SpecAny == AnyRun /\ [][AnyNext]_vars

DeclRun == DeclInit /\ TextIdle /\ JsonIdle /\ AnyIdle /\ LocIdle
SpecDecl == DeclRun /\ [][DeclNext]_vars

LocRun == LocInit /\ TextIdle /\ JsonIdle /\ AnyIdle /\ DeclIdle
SpecLoc == LocRun /\ [][LocNext]_vars

\* the location rewriter with a linter that reports occurrences on line 1
LocOnLine1Run == l_linter = "report" /\ l_unused \in LocReportsOnLine1 /\ LocRun

\* fix_no_explicit_any alone
NoExplicitAnyRun == a_tool = "fix_no_explicit_any" /\ AnyRun

\* one of the rewriters that write a file back is run: fix_no_explicit_any
\* or either rewriter of unused variables
WriteBackInit == NoExplicitAnyRun \/ DeclRun \/ LocOnLine1Run
WriteBackNext == FixNoExplicitAny \/ DeclNext \/ LocNext
SpecWriteBack == WriteBackInit /\ [][WriteBackNext]_vars

\* either rewriter of unused variables is run
UnusedVarsInit == DeclRun \/ LocRun
UnusedVarsNext == DeclNext \/ LocNext
SpecUnusedVars == UnusedVarsInit /\ [][UnusedVarsNext]_vars

(***************************************************************************)
(* Properties of the aggregators.                                          *)
(***************************************************************************)
Totals(entries) == SumSeq([i \in DOMAIN entries |-> entries[i].total])
NonIncreasing(counts) ==
    \A i \in DOMAIN counts : i < Len(counts) => counts[i] >= counts[i + 1]
MatchingLines(lines) == Cardinality({i \in DOMAIN lines : file_pattern_match(lines[i])})

\* C1: once the text aggregator has displayed a report, every directory's
\* displayed total is the sum of the totals displayed for its files, the
\* directory totals add up to the number of report lines that match the line
\* grammar, and no error was printed for the lines that do not match.
C1_TextTotalsAddUp ==
    (t_pc \in {"complete", "done"} /\ t_report.exists) =>
        /\ \A i \in DOMAIN t_out.blocks :
              t_out.blocks[i].total = Totals(t_out.blocks[i].files)
        /\ Totals(t_out.blocks) = MatchingLines(t_report.lines)
        /\ ~t_out.error
        /\ t_exit \in {-1, 0}

C1_Witness ==
    /\ t_pc = "done"
    /\ t_report.exists
    /\ \E i \in DOMAIN t_out.blocks : Len(t_out.blocks[i].files) >= 2
    /\ MatchingLines(t_report.lines) < Len(t_report.lines)

\* C2: after the JSON aggregator has parsed a valid report, the total issue
\* count, the sum of the global per-rule counts and the sum of the
\* per-directory totals all equal the number of messages of the report, and
\* the messages without a rule identifier are the count of rule "unknown".
C2_EveryMessageCountedOnce ==
    (j_pc \in {"display", "recommend"} /\ j_report.state = "valid") =>
        LET n == CountMessages(j_report.elems)
        IN /\ total_issues = n
           /\ SumSeq(DictValues(rule_counts)) = n
           /\ SumSeq(DictValues(json_dir_totals(issues_by_dir))) = n
           /\ DictGet(rule_counts, "unknown", 0) =
                SumSeq([e \in DOMAIN j_report.elems |->
                    Cardinality({m \in DOMAIN j_report.elems[e].messages :
                        ~j_report.elems[e].messages[m].hasRuleId})])

\* C3: a run of the JSON aggregator on a valid report without any message
\* ends with a displayed total of zero, exit status 0 and no exception.
C3_ZeroMessagesEndNormally ==
    (j_pc = "done" /\ j_report.state = "valid" /\ CountMessages(j_report.elems) = 0) =>
        /\ j_out.displayed
        /\ j_out.listing.total = 0
        /\ j_out.traceback = "none"
        /\ j_exit = 0

\* position of a key in an insertion-ordered dictionary
KeyPos(d, key) == CHOOSE i \in DOMAIN d : d[i].k = key

\* entries listed in non-increasing count order, equal counts in the order
\* the keys entered the aggregation
ListedInOrder(listing, countOf(_), posOf(_)) ==
    \A i, j \in DOMAIN listing :
        i < j => \/ countOf(listing[i]) > countOf(listing[j])
                 \/ /\ countOf(listing[i]) = countOf(listing[j])
                    /\ posOf(listing[i]) < posOf(listing[j])

C4_TextOrdered ==
    t_pc \in {"complete", "done"} =>
        /\ LET cnt(b) == b.total
               pos(b) == KeyPos(folder_file_errors, b.folder)
           IN ListedInOrder(t_out.blocks, cnt, pos)
        /\ \A b \in DOMAIN t_out.blocks :
              LET files == DictGet(folder_file_errors, t_out.blocks[b].folder, <<>>)
                  sorted_files == sorted_desc(files)
                  cnt(f) == f.v
                  pos(f) == KeyPos(files, f.k)
              IN /\ ListedInOrder(sorted_files, cnt, pos)
                 /\ NonIncreasing([f \in DOMAIN t_out.blocks[b].files |->
                                      t_out.blocks[b].files[f].total])

C4_JsonOrdered ==
    j_out.displayed =>
        /\ LET cnt(d) == d.total
               pos(d) == KeyPos(issues_by_dir, d.name)
           IN ListedInOrder(j_out.listing.dirs, cnt, pos)
        /\ LET cnt(r) == r.v
               pos(r) == KeyPos(rule_counts, r.k)
           IN ListedInOrder(j_out.listing.top_rules, cnt, pos)
        /\ \A d \in DOMAIN j_out.listing.dirs :
              LET dir == j_out.listing.dirs[d]
                  files == DictGet(issues_by_dir, dir.name, <<>>)
                  cnt(f) == f.total
                  pos(f) == KeyPos(files, f.name)
              IN /\ ListedInOrder(dir.files, cnt, pos)
                 /\ \A f \in DOMAIN dir.files :
                       LET rules == DictGet(files, dir.files[f].name, <<>>)
                           rcnt(r) == r.v
                           rpos(r) == KeyPos(rules, r.k)
                       IN ListedInOrder(dir.files[f].rules, rcnt, rpos)

\* C4: in the listing of either aggregator the directories, the files of a
\* directory, the rules of a file and the global rules appear in
\* non-increasing order of their count, and entries with equal counts appear
\* in the order in which they entered the aggregation.
C4_ListingsOrdered == C4_TextOrdered /\ C4_JsonOrdered

\* a later key with a larger count was moved in front, at some level
C4_Witness ==
    \/ /\ t_pc = "done"
       /\ \E i, j \in DOMAIN t_out.blocks :
             /\ i < j
             /\ KeyPos(folder_file_errors, t_out.blocks[i].folder)
                  > KeyPos(folder_file_errors, t_out.blocks[j].folder)
    \/ /\ j_pc = "done"
       /\ j_out.displayed
       /\ \E i, j \in DOMAIN j_out.listing.top_rules :
             /\ i < j
             /\ KeyPos(rule_counts, j_out.listing.top_rules[i].k)
                  > KeyPos(rule_counts, j_out.listing.top_rules[j].k)

C6_InvalidJsonIsFatal ==
    (j_pc \notin {"off", "generate", "parse"} /\ j_report.state = "invalid") =>
        /\ j_pc = "done"
        /\ j_out.error = "invalid"
        /\ issues_by_dir = <<>> /\ rule_counts = <<>> /\ total_issues = 0
        /\ ~j_out.displayed
        /\ j_exit = 1

C6_Witness == j_pc = "done" /\ j_report.state = "invalid" /\ j_exit = 1

(***************************************************************************)
(* Properties of the rewriters.                                            *)
(***************************************************************************)
\* C7: a second run of the "any" rewriter on the same file makes no
\* replacement (fix_no_explicit_any returns 0, fix_any_types leaves
\* file_modified false), does not write the file, and leaves the content
\* equal to the result of the first run.
C7_AnySecondRunNoOp ==
    a_run >= 2 =>
        /\ a_fixes = 0
        /\ ~a_modified
        /\ ~a_written
        /\ a_content = a_read

\* a second run has ended on a file that the first run rewrote
C7_Witness ==
    /\ a_run = 2
    /\ "unknown" \in {a_content[i] : i \in DOMAIN a_content}
    /\ a_tool = "fix_no_explicit_any"

\* number of (non-overlapping) places of s where re matches
Matches(re, s) == subn(re, s).n

\* a declaration "const|let|var v" followed by ":", "=", "in" or "of"
Declaration(variable) == decl_patterns(variable)[1]

\* the same declaration of the name with one underscore in front
PrefixedDeclaration(variable) ==
    <<[pat |-> <<One(Declarators), Plus(S), Lit("_"), Lit(variable), Star(S),
                 One({":", "="})>>, repl |-> <<>>],
      [pat |-> <<One(Declarators), Plus(S), Lit("_"), Lit(variable), Plus(S),
                 One({"in", "of"}), Plus(S)>>, repl |-> <<>>]>>

RECURSIVE first_pattern_only(_, _)
first_pattern_only(patterns, content) ==
    IF patterns = <<>> THEN content
    ELSE IF search(Head(patterns), content) THEN subn(Head(patterns), content).out
         ELSE first_pattern_only(Tail(patterns), content)

\* C9: a run of fix_unused_vars on a file without "_v" rewrites only the
\* first pattern of the list that matches v, every other token of the file
\* is as before, and no v has more than one underscore put in front of it.
C9_OnlyFirstPatternOneUnderscore ==
    (d_run = 1 /\ ~Contains(d_read, <<"_">>)) =>
        /\ d_content = first_pattern_only(decl_patterns("v"), d_read)
        /\ ~Contains(d_content, <<"_", "_", "v">>)

\* the name is at column col_num of the line as a token of its own: the
\* characters next to it, where there are any, are no word characters
standalone_at(line, var_name, col_num) ==
    /\ col_num >= 1
    /\ col_num + Len(var_name) - 1 <= Len(line)
    /\ SubSeq(line, col_num, col_num + Len(var_name) - 1) = var_name
    /\ col_num > 1 => ~is_word_char(line[col_num - 1])
    /\ col_num + Len(var_name) <= Len(line) => ~is_word_char(line[col_num + Len(var_name)])

\* the line with one underscore put in at column col_num
underscore_at(line, col_num) ==
    SubSeq(line, 1, col_num - 1) \o <<"_">> \o SubSeq(line, col_num, Len(line))

\* C10: a run of the location rewriter for one flagged occurrence (name,
\* line, column) whose name has no leading underscore puts exactly one
\* underscore in at that column, every other character as before, when the
\* name is at that line and column as a standalone token, and leaves the
\* file as it is when the name is not there or is part of a longer identifier.
C10_StandaloneGetsOneUnderscore ==
    (l_run = 1 /\ Len(l_unused) = 1 /\ l_unused[1].name[1] # "_") =>
        LET u == l_unused[1]
        IN IF /\ u.line \in DOMAIN l_read
              /\ standalone_at(l_read[u.line], u.name, u.col)
           THEN /\ l_lines = [l_read EXCEPT ![u.line] = underscore_at(l_read[u.line], u.col)]
                /\ l_fixes = 1
                /\ l_written
           ELSE /\ l_lines = l_read
                /\ l_fixes = 0
                /\ ~l_written

\* C11: in either rewriter of unused variables, a run in which the linter
\* cannot be started or prints something that is not JSON ends with the
\* failure reported and no exception: zero fixes, nothing written, and the
\* script goes on.
C11_LinterFailureIsZeroIssues ==
    /\ (l_calls >= 1 /\ l_linter \in {"not_started", "invalid_json"}) =>
           /\ l_raised = "none"
           /\ l_error
           /\ l_fixes = 0
           /\ ~l_written
    /\ (d_calls >= 1 /\ d_linter \in {"not_started", "invalid_json"}) =>
           /\ d_raised = "none"
           /\ d_error
           /\ ~d_modified
           /\ ~d_written

\* number of tokens t in a text
Count(s, t) == Cardinality({i \in DOMAIN s : s[i] = t})

\* number of characters of a file given as its lines
Chars(lines) == SumSeq([i \in DOMAIN lines |-> Len(lines[i])])

\* C12: a pass of a rewriter writes the file exactly when it made at least
\* one replacement: with zero replacements nothing is written and the content
\* is as it was read, a written content differs from the content read, and
\* the returned count is the number of substitutions made (one "any" gone
\* per fix of fix_no_explicit_any, one underscore more per fix of the
\* location rewriter).
C12_WrittenIffReplaced ==
    /\ a_run >= 1 =>
           /\ a_written <=> a_fixes > 0
           /\ a_written <=> a_content # a_read
           /\ a_fixes = Count(a_read, "any") - Count(a_content, "any")
    /\ l_run >= 1 =>
           /\ l_written <=> l_fixes > 0
           /\ l_written <=> l_lines # l_read
           /\ l_fixes = Chars(l_lines) - Chars(l_read)
           /\ Len(l_lines) = Len(l_read)
    /\ d_run >= 1 =>
           /\ d_written <=> d_modified
           /\ d_written <=> d_content # d_read

\* a pass of fix_no_explicit_any that made a fix has written the file
C12_Witness ==
    /\ a_run = 1
    /\ a_fixes >= 1
    /\ a_written
    /\ a_content # a_read

\* the denominators of the percentages of a listing
Denominators(listing) ==
    {listing.dirs[i].den : i \in DOMAIN listing.dirs}
    \cup {listing.top_rules[i].den : i \in DOMAIN listing.top_rules}
    \cup UNION {{listing.dirs[i].files[f].den : f \in DOMAIN listing.dirs[i].files} :
                   i \in DOMAIN listing.dirs}

\* C13: display_analysis never computes a percentage with a zero denominator:
\* for the aggregation of any report, the empty one included, the grand total
\* and the directory total are positive wherever they divide a count, and no
\* run ends with a division by zero.
C13_NoZeroDenominator ==
    /\ j_out.traceback # "ZeroDivisionError"
    /\ j_pc = "display" =>
           \A d \in Denominators(display_analysis(issues_by_dir, rule_counts, total_issues)) :
               d > 0
    /\ j_out.displayed =>
           /\ \A d \in Denominators(j_out.listing) : d > 0
           /\ j_out.listing.total = 0 => Denominators(j_out.listing) = {}

\* a listing with two directories was displayed: the grand total and two
\* directory totals have divided counts
C13_Witness ==
    /\ j_out.displayed
    /\ Len(j_out.listing.dirs) >= 2
    /\ Cardinality(Denominators(j_out.listing)) >= 2

\* number of array types "any[]" or "unknown[]" in a text
ArrayTypes(s) ==
    Cardinality({i \in DOMAIN s : /\ i < Len(s)
                                  /\ s[i] \in {"any", "unknown"}
                                  /\ s[i + 1] = "[]"})

\* C14: in a pass of either "any" rewriter an array-typed "any[]" is
\* rewritten by an array substitution only, so that it is "unknown[]" (or
\* still "any[]") afterwards and never the text a substitution for a bare
\* "any" writes, and every "any" that is rewritten is rewritten once: one
\* "unknown" written per "any" gone.
C14_ArrayAnyBeforeBareAny ==
    a_run = 1 =>
        /\ ArrayTypes(a_content) = ArrayTypes(a_read)
        /\ Count(a_content, "unknown") - Count(a_read, "unknown")
             = Count(a_read, "any") - Count(a_content, "any")

\* the lines with one underscore put in front of every occurrence of the
\* report, each at its (line, column) in the lines as they were read
RECURSIVE all_prefixed(_, _)
all_prefixed(lines, unused_vars) ==
    IF unused_vars = <<>> THEN lines
    ELSE LET u == unused_vars[Len(unused_vars)]
         IN all_prefixed([lines EXCEPT ![u.line] = underscore_at(lines[u.line], u.col)],
                         SubSeq(unused_vars, 1, Len(unused_vars) - 1))

\* C15: when the linter reports several occurrences for a file, none with a
\* leading underscore and each a standalone token at its (line, column) of
\* the file as read, a run puts exactly one underscore in front of every one
\* of them, also of two on the same line, and returns their number.
C15_EveryOccurrencePrefixed ==
    (/\ l_run = 1
     /\ Len(l_unused) >= 2
     /\ \A i \in DOMAIN l_unused :
           /\ l_unused[i].name[1] # "_"
           /\ l_unused[i].line \in DOMAIN l_read
           /\ standalone_at(l_read[l_unused[i].line], l_unused[i].name, l_unused[i].col))
    => /\ l_lines = all_prefixed(l_read, l_unused)
       /\ l_fixes = Len(l_unused)

====
